---- MODULE Spec2Model ----
(***************************************************************************)
(* The dependency-injection container of src/utils/DependencyContainer.js  *)
(* as a state machine.  A state holds the containers that exist (the       *)
(* default one, "parent", and the one createChild() returned, "child"),    *)
(* the Maps they own, the object allocator, and the history of the calls   *)
(* made: for each call its arguments, its result, the containers before it *)
(* and the sequence of resolutions, factory invocations and disposals it   *)
(* performed.  A run starts from a container wired as at start-up and      *)
(* makes up to MaxSteps calls.  Spec starts from the wirings of Wirings;   *)
(* SpecServices starts from those of ServiceWirings, which also pin        *)
(* values, use the SCOPED lifecycle, asynchronous factories and factories  *)
(* that call resolve() themselves, and lets the promises settle.           *)
(* SpecGraphs starts from the wirings of GraphWirings (a diamond above a   *)
(* transient service, a factory that resolves its own service) and makes   *)
(* resolve, resolveAll and unregister calls; SpecApp starts from the       *)
(* container createContainer() builds and resolves its services.           *)
(***************************************************************************)
EXTENDS Integers, Sequences, FiniteSets, TLC

VARIABLES
  containers,  \* container id -> its Map objects (store) and its cycle-tracking Set
  stores,      \* store id -> the three Maps the constructor created
  nextId,      \* identity of the next object a factory constructs
  history      \* the calls made so far, oldest first

vars == <<containers, stores, nextId, history>>

----------------------------------------------------------------------------
(* Bounds of the model. *)

\* Number of calls made on the containers after the initial wiring.
MaxSteps == 3
\* Objects the factories may construct in one run.
MaxObjs == 8
\* Depth of nested resolve() calls at which the JavaScript engine gives up
\* with a RangeError (call stack exhausted).
MaxDepth == 6

Names == {"a", "b", "c"}

\* The services of the wirings below: logger, repo and service.
Logger == "a"
Repo == "b"
Service == "c"

----------------------------------------------------------------------------
(* Instances: JavaScript objects, compared by identity (id).  disp tells    *)
(* whether the object has a dispose() method and what it does.             *)

Inst(i, d) == [id |-> i, disp |-> d]

NoInst == Inst(0, "absent")

\* Objects built by the caller before any container call (registerValue's
\* values, pre-built instances handed to register).
Value1 == Inst(1, "ok")
Value2 == Inst(2, "throws")
Values == {Value1, Value2}
FirstFreeId == Cardinality(Values) + 1

----------------------------------------------------------------------------
(* JavaScript's Map: keys in insertion order, one entry per key.            *)

MapHas(m, k) == \E i \in 1..Len(m) : m[i].k = k

MapIndex(m, k) == CHOOSE i \in 1..Len(m) : m[i].k = k

MapGet(m, k) == m[MapIndex(m, k)].v

MapSet(m, k, v) ==
  IF MapHas(m, k)
    THEN [m EXCEPT ![MapIndex(m, k)] = [k |-> k, v |-> v]]
    ELSE Append(m, [k |-> k, v |-> v])

MapDelete(m, k) == SelectSeq(m, LAMBDA e : e.k # k)

MapKeys(m) == [i \in 1..Len(m) |-> m[i].k]

MapClear(m) == << >>

----------------------------------------------------------------------------
(* Descriptors (the config object register() builds) and factories.        *)
(* A factory is a function or a pre-built instance:                        *)
(*   "new"        function returning a new object without dispose()        *)
(*   "disposable" function returning a new object with dispose()           *)
(*   "throws"     function that throws                                     *)
(*   "const"      function returning the captured value val                *)
(*   "instance"   not a function: the object val itself                    *)
(*   "async"      async function: returns a new pending promise             *)
(*   "lookup"     function that asks the container for Logger itself and    *)
(*                returns a new object built on it                          *)

SINGLETON == "singleton"
TRANSIENT == "transient"
SCOPED == "scoped"

LIFECYCLE == [SINGLETON |-> SINGLETON, TRANSIENT |-> TRANSIENT, SCOPED |-> SCOPED]

Factory(kind, val) == [kind |-> kind, val |-> val]

NewFactory == Factory("new", NoInst)
DisposableFactory == Factory("disposable", NoInst)
ThrowingFactory == Factory("throws", NoInst)
ConstFactory(v) == Factory("const", v)
InstanceFactory(v) == Factory("instance", v)
AsyncFactory == Factory("async", NoInst)
LookupFactory == Factory("lookup", NoInst)

IsFunction(f) == f.kind # "instance"

Config(f, lc, deps) == [factory |-> f, lifecycle |-> lc, dependencies |-> deps]

\* new DependencyContainer(); _circularDependencyCheck does not exist yet,
\* which every read of it treats as the empty set.
NewContainer ==
  [_services |-> << >>, _singletons |-> << >>, _configurations |-> << >>,
   _circularDependencyCheck |-> {}]

----------------------------------------------------------------------------
(* Results and the record threaded through one call: the container, the    *)
(* allocator, the events so far and the value returned or error thrown.    *)

Returned(i) == [kind |-> "value", inst |-> i, error |-> "", name |-> "", args |-> << >>]

ReturnedBoolean(b) ==
  [kind |-> IF b THEN "true" ELSE "false", inst |-> NoInst, error |-> "", name |-> "",
   args |-> << >>]

ReturnedArgs(as) == [kind |-> "value", inst |-> NoInst, error |-> "", name |-> "", args |-> as]

Thrown(e, n) == [kind |-> "error", inst |-> NoInst, error |-> e, name |-> n, args |-> << >>]

NoResult == [kind |-> "none", inst |-> NoInst, error |-> "", name |-> "", args |-> << >>]

ServiceNotFoundError == "ServiceNotFoundError"
CircularDependencyError == "CircularDependencyError"
FactoryError == "FactoryError"
RangeError == "RangeError"

Event(ev, n, as, i) == [ev |-> ev, name |-> n, args |-> as, inst |-> i]

Ids(as) == [i \in 1..Len(as) |-> as[i].id]

Call(ct, id) == [ct |-> ct, nextId |-> id, trace |-> << >>, ret |-> NoResult]

Log(m, e) == [m EXCEPT !.trace = Append(@, e)]

Ret(m, r) == [m EXCEPT !.ret = r]

----------------------------------------------------------------------------
(* The methods of DependencyContainer, as operators on a container record. *)

RECURSIVE resolve(_, _, _)
RECURSIVE _createInstance(_, _, _, _)
RECURSIVE _resolveDependencies(_, _, _, _)
RECURSIVE ResolveEach(_, _, _, _)
RECURSIVE Construct(_, _, _, _, _)

\* register that fills the options left out from the descriptor the name had.
RegisterOverPrior(ct, name, factory, options) ==
  LET had == MapHas(ct._services, name)
      prior == MapGet(ct._services, name)
      config == Config(factory,
                       IF "lifecycle" \in DOMAIN options THEN options.lifecycle
                       ELSE IF had THEN prior.lifecycle ELSE LIFECYCLE.SINGLETON,
                       IF "dependencies" \in DOMAIN options THEN options.dependencies
                       ELSE IF had THEN prior.dependencies ELSE << >>)
  IN  [ct EXCEPT !._services = MapSet(@, name, config),
                 !._configurations = MapSet(@, name, config)]

\* register that evicts the instance cached under the name.
RegisterEvicting(ct, name, factory, options) ==
  LET config == Config(factory,
                       IF "lifecycle" \in DOMAIN options
                         THEN options.lifecycle ELSE LIFECYCLE.SINGLETON,
                       IF "dependencies" \in DOMAIN options
                         THEN options.dependencies ELSE << >>)
  IN  [ct EXCEPT !._services = MapSet(@, name, config),
                 !._configurations = MapSet(@, name, config),
                 !._singletons = MapDelete(@, name)]

\* register(name, factory, options): options holds the keys the caller gave.
register(ct, name, factory, options) ==
  LET config == Config(factory,
                       IF "lifecycle" \in DOMAIN options
                         THEN options.lifecycle ELSE LIFECYCLE.SINGLETON,
                       IF "dependencies" \in DOMAIN options
                         THEN options.dependencies ELSE << >>)
  IN  [ct EXCEPT !._services = MapSet(@, name, config),
                 !._configurations = MapSet(@, name, config)]

registerSingleton(ct, name, factory, dependencies) ==
  register(ct, name, factory,
           [lifecycle |-> LIFECYCLE.SINGLETON, dependencies |-> dependencies])

registerTransient(ct, name, factory, dependencies) ==
  register(ct, name, factory,
           [lifecycle |-> LIFECYCLE.TRANSIENT, dependencies |-> dependencies])

\* registerValue that registers the factory () => value and caches nothing.
RegisterValueAsFactory(ct, name, value) ==
  register(ct, name, ConstFactory(value), [lifecycle |-> LIFECYCLE.SINGLETON])

registerValue(ct, name, value) ==
  register([ct EXCEPT !._singletons = MapSet(@, name, value)],
           name, ConstFactory(value), [lifecycle |-> LIFECYCLE.SINGLETON])

\* resolve that hands back undefined for a name without descriptor.
ResolveWithoutRegistrationCheck(m, name, d) ==
  LET m1 == Log(m, Event("resolve", name, << >>, NoInst))
  IN  IF d > MaxDepth
        THEN Ret(m1, Thrown(RangeError, name))
        ELSE IF ~MapHas(m1.ct._services, name)
          THEN Ret(m1, Returned(NoInst))
          ELSE _createInstance(m1, name, MapGet(m1.ct._services, name), d)

\* resolve(name), at call depth d; m is the call record so far.
resolve(m, name, d) ==
  LET m1 == Log(m, Event("resolve", name, << >>, NoInst))
  IN  IF d > MaxDepth
        THEN Ret(m1, Thrown(RangeError, name))
        ELSE IF ~MapHas(m1.ct._services, name)
          THEN Ret(m1, Thrown(ServiceNotFoundError, name))
          ELSE _createInstance(m1, name, MapGet(m1.ct._services, name), d)

\* The body of a "lookup" factory, () => new Repo(container.resolve(Logger)):
\* a resolve() that user code issues while the resolve() that invoked the
\* factory is in progress.  The event tells whether the names being resolved
\* further up are in the container's cycle-tracking set at that moment.
Lookup(m, d) ==
  LET ev == IF m.ct._circularDependencyCheck = {} THEN "lookup" ELSE "lookupTracked"
  IN  resolve(Log(m, Event(ev, Logger, << >>, NoInst)), Logger, d + 1)

\* The factory call of _createInstance (lines 220-226): the instance, or the
\* error the factory raised.
Construct(m, name, config, args, d) ==
  LET f == config.factory
      called(out) == Log(m, Event("factory", name, Ids(args), out))
      made(out) == Ret([called(out) EXCEPT !.nextId = @ + 1], Returned(out))
      promise == Inst(m.nextId, "none")
      built == Inst(m.nextId, "none")
      found == Lookup([called(built) EXCEPT !.nextId = @ + 1], d)
  IN  CASE f.kind = "instance" -> Ret(m, Returned(f.val))
        [] f.kind = "const" -> Ret(called(f.val), Returned(f.val))
        [] f.kind = "throws" -> Ret(called(NoInst), Thrown(FactoryError, name))
        [] f.kind = "new" -> made(Inst(m.nextId, "none"))
        [] f.kind = "disposable" -> made(Inst(m.nextId, "ok"))
        [] f.kind = "async" ->
             Log(made(promise), Event("pending", name, << >>, promise))
        [] f.kind = "lookup" ->
             IF found.ret.kind = "error" THEN found ELSE Ret(found, Returned(built))

\* Never caches.
StoreNothing(m, name, config) == m

\* Caches whatever was constructed, whatever its lifecycle.
StoreAnyLifecycle(m, name, config) ==
  IF m.ret.kind = "value"
    THEN [m EXCEPT !.ct._singletons = MapSet(@, name, m.ret.inst)]
    ELSE m

\* Caches finished instances only: a promise still pending is not stored.
StoreSettledOnly(m, name, config) ==
  IF /\ m.ret.kind = "value" /\ config.lifecycle = LIFECYCLE.SINGLETON
     /\ m.trace[Len(m.trace)].ev # "pending"
    THEN [m EXCEPT !.ct._singletons = MapSet(@, name, m.ret.inst)]
    ELSE m

\* Caches in a finally block: also the undefined left by a factory that threw.
StoreFailedConstruction(m, name, config) ==
  IF config.lifecycle = LIFECYCLE.SINGLETON
    THEN [m EXCEPT !.ct._singletons = MapSet(@, name, m.ret.inst)]
    ELSE m

\* Lines 228-233: cache a singleton, return the instance.
Store(m, name, config) ==
  IF m.ret.kind = "value" /\ config.lifecycle = LIFECYCLE.SINGLETON
    THEN [m EXCEPT !.ct._singletons = MapSet(@, name, m.ret.inst)]
    ELSE m

\* _createInstance without the cycle check of lines 205-208.
CreateInstanceWithoutCycleCheck(m, name, config, d) ==
  IF config.lifecycle = LIFECYCLE.SINGLETON /\ MapHas(m.ct._singletons, name)
    THEN Ret(Log(m, Event("cached", name, << >>, MapGet(m.ct._singletons, name))),
             Returned(MapGet(m.ct._singletons, name)))
    ELSE LET deps == _resolveDependencies(m, config.dependencies, name, d)
         IN  IF deps.ret.kind = "error"
               THEN deps
               ELSE Store(Construct(deps, name, config, deps.ret.args, d), name, config)

\* _createInstance that skips the singleton cache lookup of lines 211-215.
CreateInstanceWithoutCacheLookup(m, name, config, d) ==
  IF name \in m.ct._circularDependencyCheck
    THEN Ret(m, Thrown(CircularDependencyError, name))
    ELSE LET deps == _resolveDependencies(m, config.dependencies, name, d)
         IN  IF deps.ret.kind = "error"
               THEN deps
               ELSE Store(Construct(deps, name, config, deps.ret.args, d), name, config)

\* _createInstance that caches and serves from the cache whatever the
\* lifecycle.
CreateInstanceCachingEveryLifecycle(m, name, config, d) ==
  IF name \in m.ct._circularDependencyCheck
    THEN Ret(m, Thrown(CircularDependencyError, name))
    ELSE IF MapHas(m.ct._singletons, name)
      THEN Ret(Log(m, Event("cached", name, << >>, MapGet(m.ct._singletons, name))),
               Returned(MapGet(m.ct._singletons, name)))
      ELSE LET deps == _resolveDependencies(m, config.dependencies, name, d)
           IN  IF deps.ret.kind = "error"
                 THEN deps
                 ELSE StoreAnyLifecycle(Construct(deps, name, config, deps.ret.args, d),
                                        name, config)

_createInstance(m, name, config, d) ==
  IF name \in m.ct._circularDependencyCheck
    THEN Ret(m, Thrown(CircularDependencyError, name))
    ELSE IF config.lifecycle = LIFECYCLE.SINGLETON /\ MapHas(m.ct._singletons, name)
      THEN Ret(Log(m, Event("cached", name, << >>, MapGet(m.ct._singletons, name))),
               Returned(MapGet(m.ct._singletons, name)))
      ELSE LET deps == _resolveDependencies(m, config.dependencies, name, d)
           IN  IF deps.ret.kind = "error"
                 THEN deps
                 ELSE Store(Construct(deps, name, config, deps.ret.args, d), name, config)

\* The map run from the last dependency to the first, the instances handed
\* on in the order of the declaration.
ResolveEachRightToLeft(m, dependencies, acc, d) ==
  IF dependencies = << >>
    THEN Ret(m, ReturnedArgs(acc))
    ELSE LET r == resolve(m, dependencies[Len(dependencies)], d + 1)
         IN  IF r.ret.kind = "error"
               THEN r
               ELSE LET rest == ResolveEach(r, SubSeq(dependencies, 1, Len(dependencies) - 1),
                                            << >>, d)
                    IN  IF rest.ret.kind = "error"
                          THEN rest
                          ELSE Ret(rest, ReturnedArgs(acc \o rest.ret.args \o <<r.ret.inst>>))

\* dependencies.map(dep => this.resolve(dep)) from index i on; acc holds the
\* instances resolved so far.  The first error ends the map.
ResolveEach(m, dependencies, acc, d) ==
  IF dependencies = << >>
    THEN Ret(m, ReturnedArgs(acc))
    ELSE LET r == resolve(m, Head(dependencies), d + 1)
         IN  IF r.ret.kind = "error"
               THEN r
               ELSE ResolveEach(r, Tail(dependencies), Append(acc, r.ret.inst), d)

\* _resolveDependencies whose delete runs after the map instead of in a
\* finally block: an error leaves currentService in the set.
ResolveDependenciesWithoutFinally(m, dependencies, currentService, d) ==
  IF Len(dependencies) = 0
    THEN Ret(m, ReturnedArgs(<< >>))
    ELSE LET added == [m EXCEPT !.ct._circularDependencyCheck = @ \cup {currentService}]
             r == ResolveEach(added, dependencies, << >>, d)
         IN  IF r.ret.kind = "error"
               THEN r
               ELSE [r EXCEPT !.ct._circularDependencyCheck = @ \ {currentService}]

_resolveDependencies(m, dependencies, currentService, d) ==
  IF Len(dependencies) = 0
    THEN Ret(m, ReturnedArgs(<< >>))
    ELSE LET added == [m EXCEPT !.ct._circularDependencyCheck = @ \cup {currentService}]
             r == ResolveEach(added, dependencies, << >>, d)
         IN  \* finally
             [r EXCEPT !.ct._circularDependencyCheck = @ \ {currentService}]

\* The sequence s, last element first.
Reverse(s) == [i \in 1..Len(s) |-> s[Len(s) + 1 - i]]

\* resolveAll that maps from the last name to the first and hands the
\* results back in the order of names.
ResolveAllRightToLeft(m, names) ==
  LET r == ResolveEach(m, Reverse(names), << >>, 0)
  IN  IF r.ret.kind = "error" THEN r ELSE Ret(r, ReturnedArgs(Reverse(r.ret.args)))

\* names.map(name => this.resolve(name)): the array of the instances, or the
\* error of the first resolve that threw.
resolveAll(m, names) == ResolveEach(m, names, << >>, 0)

\* unregister that forgets the instance and the configuration only.
UnregisterLeavesService(ct, name) ==
  [ct EXCEPT !._singletons = MapDelete(@, name),
             !._configurations = MapDelete(@, name)]

\* unregister that leaves the cached instance behind.
UnregisterKeepsSingleton(ct, name) ==
  [ct EXCEPT !._configurations = MapDelete(@, name),
             !._services = MapDelete(@, name)]

unregister(ct, name) ==
  [ct EXCEPT !._singletons = MapDelete(@, name),
             !._configurations = MapDelete(@, name),
             !._services = MapDelete(@, name)]

\* clear() that empties the descriptors and leaves the cached instances.
ClearLeavesSingletons(ct) ==
  [ct EXCEPT !._services = MapClear(@),
             !._configurations = MapClear(@)]

clear(ct) ==
  [ct EXCEPT !._services = MapClear(@),
             !._singletons = MapClear(@),
             !._configurations = MapClear(@)]

\* this._services.has(name)
isRegistered(ct, name) == MapHas(ct._services, name)

\* Array.from(this._services.keys())
getRegisteredServices(ct) == MapKeys(ct._services)

\* JavaScript's null.
Null == [null |-> TRUE]

\* this._configurations.get(name) || null
getConfiguration(ct, name) ==
  IF MapHas(ct._configurations, name) THEN MapGet(ct._configurations, name) ELSE Null

\* for (const [k, v] of from) to.set(k, v)
CopyInto(to, from) ==
  LET F[i \in 0..Len(from)] ==
        IF i = 0 THEN to ELSE MapSet(F[i - 1], from[i].k, from[i].v)
  IN  F[Len(from)]

\* createChild that copies the descriptors only.
CreateChildWithoutSingletons(ct) ==
  [NewContainer EXCEPT !._services = CopyInto(@, ct._services),
                       !._configurations = CopyInto(@, ct._services)]

createChild(ct) ==
  [NewContainer EXCEPT !._services = CopyInto(@, ct._services),
                       !._configurations = CopyInto(@, ct._services),
                       !._singletons = CopyInto(@, ct._singletons)]

\* The loop of dispose() from entry i on: one "dispose" event per call of an
\* instance's dispose(), "disposeError" when it threw and the error was caught.
DisposeEach(m, entries) ==
  LET F[i \in 0..Len(entries)] ==
        IF i = 0 THEN m
        ELSE LET e == entries[i]
                 called == Log(F[i - 1], Event("dispose", e.k, << >>, e.v))
             IN  CASE e.v.disp = "ok" -> called
                   [] e.v.disp = "throws" ->
                        Log(called, Event("disposeError", e.k, << >>, e.v))
                   [] OTHER -> F[i - 1]
  IN  F[Len(entries)]

\* dispose() without the try/catch: the first failing dispose() ends the loop
\* and the call, before clear().
DisposeWithoutCatch(m) ==
  LET entries == m.ct._singletons
      F[i \in 0..Len(entries)] ==
        IF i = 0 THEN m
        ELSE IF F[i - 1].ret.kind = "error" THEN F[i - 1]
        ELSE LET e == entries[i]
                 called == Log(F[i - 1], Event("dispose", e.k, << >>, e.v))
             IN  CASE e.v.disp = "ok" -> called
                   [] e.v.disp = "throws" -> Ret(called, Thrown("DisposeError", e.k))
                   [] OTHER -> F[i - 1]
      r == F[Len(entries)]
  IN  IF r.ret.kind = "error" THEN r ELSE Ret([r EXCEPT !.ct = clear(@)], Returned(NoInst))

dispose(m) ==
  LET r == DisposeEach(m, m.ct._singletons)
  IN  Ret([r EXCEPT !.ct = clear(@)], Returned(NoInst))

----------------------------------------------------------------------------
(* The state machine.                                                      *)

PARENT == "parent"
CHILD == "child"

\* The container c as its methods see it: its own fields, its Maps' contents.
View(c) ==
  [_services |-> stores[containers[c].store]._services,
   _singletons |-> stores[containers[c].store]._singletons,
   _configurations |-> stores[containers[c].store]._configurations,
   _circularDependencyCheck |-> containers[c]._circularDependencyCheck]

Snapshot == [c \in DOMAIN containers |-> View(c)]

StoreOf(ct) ==
  [_services |-> ct._services, _singletons |-> ct._singletons,
   _configurations |-> ct._configurations]

\* Every container uses the Maps of the first one.
SharedStore(c) == "parent"

\* The constructor gives the container c Maps of its own.
NewStore(c) == c

Entry(op, c, name, arg, m) ==
  [op |-> op, c |-> c, name |-> name, arg |-> arg, before |-> Snapshot,
   ret |-> m.ret, trace |-> m.trace]

\* A call on container c that ran to the call record m.
Commit(op, c, name, arg, m) ==
  /\ Len(history) < MaxSteps
  /\ m.nextId - FirstFreeId <= MaxObjs
  /\ containers' = [containers EXCEPT
                      ![c]._circularDependencyCheck = m.ct._circularDependencyCheck]
  /\ stores' = [stores EXCEPT ![containers[c].store] = StoreOf(m.ct)]
  /\ nextId' = m.nextId
  /\ history' = Append(history, Entry(op, c, name, arg, m))

Start(c) == Call(View(c), nextId)

Did(m, ct) == Ret([m EXCEPT !.ct = ct], Returned(NoInst))

\* What the callers register: a factory and the options given with it.
RegisterMenu ==
  { [factory |-> NewFactory, options |-> << >>],
    [factory |-> InstanceFactory(Value1), options |-> [lifecycle |-> LIFECYCLE.TRANSIENT]],
    [factory |-> DisposableFactory,
     options |-> [lifecycle |-> LIFECYCLE.SCOPED, dependencies |-> <<"b", "c">>]] }

Register(c, name, r) ==
  Commit("register", c, name, r,
         Did(Start(c), register(View(c), name, r.factory, r.options)))

RegisterValue(c, name, value) ==
  Commit("registerValue", c, name, value,
         Did(Start(c), registerValue(View(c), name, value)))

Resolve(c, name) ==
  Commit("resolve", c, name, << >>, resolve(Start(c), name, 1))

ResolveAll(c, names) ==
  Commit("resolveAll", c, "", names, resolveAll(Start(c), names))

\* return this._services.delete(name): whether the key was there.
Unregister(c, name) ==
  Commit("unregister", c, name, << >>,
         Ret([Start(c) EXCEPT !.ct = unregister(@, name)],
             ReturnedBoolean(MapHas(View(c)._services, name))))

\* clear() that first calls dispose() on the cached instances, as dispose()
\* does.
ClearDisposing(c) ==
  Commit("clear", c, "", << >>, dispose(Start(c)))

Clear(c) ==
  Commit("clear", c, "", << >>, Did(Start(c), clear(View(c))))

Dispose(c) ==
  Commit("dispose", c, "", << >>, dispose(Start(c)))

CreateChild(c) ==
  /\ Len(history) < MaxSteps
  /\ CHILD \notin DOMAIN containers
  /\ containers' = [x \in DOMAIN containers \cup {CHILD} |->
                      IF x = CHILD
                        THEN [store |-> NewStore(CHILD), _circularDependencyCheck |-> {}]
                        ELSE containers[x]]
  /\ stores' = [s \in DOMAIN stores \cup {NewStore(CHILD)} |->
                  IF s = NewStore(CHILD) THEN StoreOf(createChild(View(c))) ELSE stores[s]]
  /\ nextId' = nextId
  /\ history' = Append(history, Entry("createChild", c, "", << >>, Did(Start(c), View(c))))

\* The services a caller wires at start-up, as sequences of register calls on
\* the new container: nothing; a singleton shared by a singleton and a
\* transient; a cycle of three; a throwing factory next to other services.
SharedWiring ==
  << <<"s", "a", NewFactory, << >> >>,
     <<"s", "b", NewFactory, <<"a">> >>,
     <<"t", "c", NewFactory, <<"b", "a">> >> >>

Wirings ==
  { << >>,
    SharedWiring,
    << <<"s", "a", NewFactory, <<"b">> >>,
       <<"s", "b", NewFactory, <<"c">> >>,
       <<"s", "c", NewFactory, <<"a">> >> >>,
    << <<"s", "a", ThrowingFactory, << >> >>,
       <<"s", "b", DisposableFactory, << >> >>,
       <<"t", "c", NewFactory, <<"b", "a">> >> >> }

\* Wirings that also pin a value (registerValue), register a SCOPED service,
\* a service behind a failing one, an asynchronous factory and a factory that
\* looks its dependency up itself.
PinnedWiring ==
  << <<"value", Logger, ConstFactory(Value1), << >> >>,
     <<"s", Repo, NewFactory, <<Logger>> >>,
     <<"scoped", Service, DisposableFactory, <<Logger>> >> >>

FailingWiring ==
  << <<"s", Logger, ThrowingFactory, << >> >>,
     <<"s", Repo, NewFactory, <<Logger>> >>,
     <<"s", Service, NewFactory, <<Repo>> >> >>

AsyncWiring ==
  << <<"s", Logger, AsyncFactory, << >> >>,
     <<"s", Repo, NewFactory, <<Logger>> >>,
     <<"t", Service, NewFactory, <<Logger>> >> >>

LookupWiring ==
  << <<"s", Logger, NewFactory, << >> >>,
     <<"s", Repo, LookupFactory, << >> >>,
     <<"s", Service, NewFactory, <<Repo, Logger>> >> >>

ServiceWirings == {PinnedWiring, FailingWiring, AsyncWiring, LookupWiring}

Wire(w) ==
  LET F[i \in 0..Len(w)] ==
        IF i = 0 THEN NewContainer
        ELSE CASE w[i][1] = "s" -> registerSingleton(F[i - 1], w[i][2], w[i][3], w[i][4])
               [] w[i][1] = "t" -> registerTransient(F[i - 1], w[i][2], w[i][3], w[i][4])
               [] w[i][1] = "value" -> registerValue(F[i - 1], w[i][2], w[i][3].val)
               [] w[i][1] = "scoped" ->
                    register(F[i - 1], w[i][2], w[i][3],
                             [lifecycle |-> LIFECYCLE.SCOPED, dependencies |-> w[i][4]])
  IN  F[Len(w)]

Init ==
  /\ containers = [c \in {PARENT} |-> [store |-> NewStore(PARENT), _circularDependencyCheck |-> {}]]
  /\ \E w \in Wirings : stores = [s \in {NewStore(PARENT)} |-> StoreOf(Wire(w))]
  /\ nextId = FirstFreeId
  /\ history = << >>

Next ==
  \/ \E c \in DOMAIN containers, n \in Names, r \in RegisterMenu : Register(c, n, r)
  \/ \E c \in DOMAIN containers, n \in Names, v \in Values : RegisterValue(c, n, v)
  \/ \E c \in DOMAIN containers, n \in Names : Resolve(c, n)
  \/ \E c \in DOMAIN containers, n \in Names : Unregister(c, n)
  \/ \E c \in DOMAIN containers : Clear(c)
  \/ \E c \in DOMAIN containers : Dispose(c)
  \/ CreateChild(PARENT)

Spec == Init /\ [][Next]_vars

\* The promises the asynchronous factories returned, and those that settled.
Promises ==
  UNION {{history[i].trace[p].inst :
            p \in {q \in 1..Len(history[i].trace) : history[i].trace[q].ev = "pending"}} :
         i \in 1..Len(history)}

Settled(j) ==
  {history[k].arg : k \in {i \in 1..(j - 1) : history[i].op = "settle"}}

\* The asynchronous work behind promise p completes; no container method runs.
Settle(p) ==
  /\ p \notin Settled(Len(history) + 1)
  /\ Commit("settle", PARENT, "", p, Did(Start(PARENT), View(PARENT)))

InitServices ==
  /\ containers = [c \in {PARENT} |-> [store |-> NewStore(PARENT), _circularDependencyCheck |-> {}]]
  /\ \E w \in ServiceWirings : stores = [s \in {NewStore(PARENT)} |-> StoreOf(Wire(w))]
  /\ nextId = FirstFreeId
  /\ history = << >>

NextServices ==
  \/ Next
  \/ \E p \in Promises : Settle(p)

SpecServices == InitServices /\ [][NextServices]_vars

\* Wirings whose dependency graphs have a shape of their own, over the names
\* of GraphNames: a diamond above a transient service; a factory that asks
\* the container for the service it is constructing.
Formatter == "t"

GraphNames == Names \cup {Formatter}

DiamondWiring ==
  << <<"s", "a", NewFactory, <<"b", "c">> >>,
     <<"s", "b", NewFactory, <<Formatter>> >>,
     <<"s", "c", NewFactory, <<Formatter>> >>,
     <<"t", Formatter, NewFactory, << >> >> >>

SelfLookupWiring ==
  << <<"s", Logger, LookupFactory, <<Repo>> >>,
     <<"s", Repo, NewFactory, << >> >>,
     <<"s", Service, NewFactory, <<Logger>> >> >>

GraphWirings ==
  {DiamondWiring, SelfLookupWiring, SharedWiring,
   << <<"s", "a", ThrowingFactory, << >> >>,
      <<"s", "b", DisposableFactory, << >> >>,
      <<"t", "c", NewFactory, <<"b", "a">> >> >>}

\* The arrays of names the callers hand to resolveAll.
NameLists ==
  { << >>, <<"b", "a">>, <<"c", "a", "b">>, <<"t", "t">>, <<"a", "c">>, <<"b", "c", "a">> }

InitGraphs ==
  /\ containers = [c \in {PARENT} |-> [store |-> NewStore(PARENT), _circularDependencyCheck |-> {}]]
  /\ \E w \in GraphWirings : stores = [s \in {NewStore(PARENT)} |-> StoreOf(Wire(w))]
  /\ nextId = FirstFreeId
  /\ history = << >>

NextGraphs ==
  \/ \E n \in GraphNames : Resolve(PARENT, n)
  \/ \E names \in NameLists : ResolveAll(PARENT, names)
  \/ \E n \in GraphNames : Unregister(PARENT, n)

SpecGraphs == InitGraphs /\ [][NextGraphs]_vars

\* createContainer() of the framework's entry point: the registrations it
\* makes on a new container, in its order.  Every factory is a function that
\* returns a new object (new Logger(...), logger.child(...), ...).
createContainer ==
  Wire(<< <<"s", "logger", NewFactory, << >> >>,
          <<"s", "authService", NewFactory, << >> >>,
          <<"s", "userRepository", NewFactory, <<"authService">> >>,
          <<"s", "userSearchService", NewFactory, <<"authService">> >>,
          <<"s", "userAPI", NewFactory,
            <<"authService", "userRepository", "userSearchService", "logger">> >>,
          <<"s", "userFactory", NewFactory, << >> >>,
          <<"s", "testDataFactory", NewFactory, << >> >>,
          <<"t", "apiLogger", NewFactory, <<"logger">> >>,
          <<"t", "testLogger", NewFactory, <<"logger">> >>,
          <<"t", "stepLogger", NewFactory, <<"logger">> >> >>)

\* The names the framework's modules ask the container for.
AppNames ==
  {"logger", "authService", "userRepository", "userSearchService", "userAPI",
   "userFactory", "testDataFactory", "apiLogger", "testLogger", "stepLogger"}

\* const container = createContainer();
InitApp ==
  /\ containers = [c \in {PARENT} |-> [store |-> NewStore(PARENT), _circularDependencyCheck |-> {}]]
  /\ stores = [s \in {NewStore(PARENT)} |-> StoreOf(createContainer)]
  /\ nextId = FirstFreeId
  /\ history = << >>

NextApp == \E n \in AppNames : Resolve(PARENT, n)

SpecApp == InitApp /\ [][NextApp]_vars

----------------------------------------------------------------------------
(* Reading the history.                                                    *)

Calls == 1..Len(history)

\* The latest call.  Every call of a history was once the latest one, in the
\* state right after it, so what holds of the latest call in every reachable
\* state holds of every call.
Latest == {Len(history)} \ {0}

\* The containers after call i.
After(i) == IF i = Len(history) THEN Snapshot ELSE history[i + 1].before

IsResolve(i) == history[i].op = "resolve"

Registered(ct, n) == MapHas(ct._services, n)

Lifecycle(ct, n) == MapGet(ct._services, n).lifecycle

Cached(ct, n) == MapHas(ct._singletons, n)

CachedSingleton(ct, n) ==
  Registered(ct, n) /\ Lifecycle(ct, n) = LIFECYCLE.SINGLETON /\ Cached(ct, n)

\* Positions of call i's trace where resolve(n) was entered, and where n's
\* factory was invoked.
Resolutions(i, n) ==
  {p \in 1..Len(history[i].trace) :
     history[i].trace[p].ev = "resolve" /\ history[i].trace[p].name = n}

Invocations(i, n) ==
  {p \in 1..Len(history[i].trace) :
     history[i].trace[p].ev = "factory" /\ history[i].trace[p].name = n}

\* The resolve(n) entered at position p of call i returned inst from the
\* cache: nothing else happened on its behalf.
ServedFromCache(i, p, n, inst) ==
  /\ p < Len(history[i].trace)
  /\ history[i].trace[p + 1] = Event("cached", n, << >>, inst)
  /\ p = 1 => /\ Len(history[i].trace) = 2
              /\ history[i].ret = Returned(inst)

\* Call k removes n's cache entry from container c / pins another value.
Drops(k, c, n) ==
  /\ history[k].c = c
  /\ \/ history[k].op \in {"clear", "dispose"}
     \/ history[k].op = "unregister" /\ history[k].name = n

Pins(k, c, n) ==
  history[k].c = c /\ history[k].op = "registerValue" /\ history[k].name = n

\* Call i resolved the singleton n on container c, and call j, later, on the
\* same container, finds n registered as a singleton.
ResolvedBefore(i, j, c, n) ==
  /\ i < j
  /\ IsResolve(i) /\ history[i].c = c /\ history[i].name = n
  /\ history[i].ret.kind = "value"
  /\ Lifecycle(history[i].before[c], n) = LIFECYCLE.SINGLETON
  /\ IsResolve(j) /\ history[j].c = c
  /\ Registered(history[j].before[c], n)
  /\ Lifecycle(history[j].before[c], n) = LIFECYCLE.SINGLETON

SameInstanceLater(i, j, n) ==
  \A p \in Resolutions(j, n) : ServedFromCache(j, p, n, history[i].ret.inst)

\* C1 as stated: once resolve(n) of a SINGLETON name has succeeded on a
\* container, every later resolve(n) there, direct or as a dependency, returns
\* the identical instance without a factory call or dependency resolution,
\* until unregister(n), clear() or dispose().
C1_SingletonOnceAsStated ==
  \A i \in Calls, j \in Calls, n \in Names :
    LET c == history[i].c
    IN  (/\ ResolvedBefore(i, j, c, n)
         /\ \A k \in (i + 1)..(j - 1) : ~Drops(k, c, n))
        => SameInstanceLater(i, j, n)

\* C1 amended: as stated, until unregister(n), clear(), dispose() or a
\* registerValue(n, v), which replaces the cached instance by v.
C1_SingletonOnce ==
  \A i \in Calls, j \in Calls, n \in Names :
    LET c == history[i].c
    IN  (/\ ResolvedBefore(i, j, c, n)
         /\ \A k \in (i + 1)..(j - 1) : ~Drops(k, c, n) /\ ~Pins(k, c, n))
        => SameInstanceLater(i, j, n)

\* A singleton constructed by one call is returned from the cache by a later
\* call, once directly and once as a dependency.
C1_Witness ==
  \E i \in Calls, j \in Calls, n \in Names :
    /\ ResolvedBefore(i, j, history[i].c, n)
    /\ Invocations(i, n) # {}
    /\ \A k \in (i + 1)..(j - 1) : ~Drops(k, history[i].c, n) /\ ~Pins(k, history[i].c, n)
    /\ \E p \in Resolutions(j, n) : p > 1

\* C2: resolve of a name without descriptor, entered directly or as a direct
\* or transitive dependency, ends the whole call with ServiceNotFoundError
\* for that name; no value is returned and nothing happens after it.
C2_UnregisteredNameFails ==
  \A i \in Calls, n \in Names :
    (IsResolve(i) /\ ~Registered(history[i].before[history[i].c], n))
    => \A p \in Resolutions(i, n) :
         /\ p = Len(history[i].trace)
         /\ history[i].ret = Thrown(ServiceNotFoundError, n)

\* A missing name reached two levels down while another name is cached.
C2_Witness ==
  \E i \in Calls, n \in Names :
    /\ IsResolve(i) /\ ~Registered(history[i].before[history[i].c], n)
    /\ \E p \in Resolutions(i, n) : p >= 3
    /\ history[i].before[history[i].c]._singletons # << >>

----------------------------------------------------------------------------
(* Dependency graphs.                                                      *)

Dependencies(ct, n) ==
  IF Registered(ct, n)
    THEN {MapGet(ct._services, n).dependencies[k] :
            k \in 1..Len(MapGet(ct._services, n).dependencies)}
    ELSE {}

\* x declares y, both registered.
Edges(ct) == {e \in Names \X Names : Registered(ct, e[2]) /\ e[2] \in Dependencies(ct, e[1])}

\* x declares y first.
FirstEdges(ct) ==
  {e \in Edges(ct) : MapGet(ct._services, e[1]).dependencies[1] = e[2]}

\* Neither end is a singleton with a cached instance.
Uncached(ct, E) == {e \in E : ~CachedSingleton(ct, e[1]) /\ ~CachedSingleton(ct, e[2])}

\* Pairs joined by a path of one or more edges of E.
RECURSIVE Paths(_, _)
Paths(E, k) ==
  IF k = 0 THEN E
  ELSE LET P == Paths(E, k - 1)
       IN  P \cup {e \in Names \X Names : \E z \in Names : <<e[1], z>> \in P /\ <<z, e[2]>> \in E}

Closure(E) == Paths(E, Cardinality(Names) - 1)

\* On a closure P: x lies on a cycle; y lies on a cycle through x.
OnCycle(P, x) == <<x, x>> \in P

OnCycleWith(P, x, y) == <<x, y>> \in P /\ <<y, x>> \in P

\* C3 as stated: resolving a name on any registered dependency cycle fails
\* with CircularDependencyError naming a node of that cycle.
C3_CycleFailsAsStated ==
  \A i \in Calls :
    IsResolve(i)
    => LET ct == history[i].before[history[i].c]
           n == history[i].name
           P == Closure(Edges(ct))
       IN  OnCycle(P, n)
           => /\ history[i].ret.kind = "error"
              /\ history[i].ret.error = CircularDependencyError
              /\ OnCycleWith(P, n, history[i].ret.name)

\* C3 amended: on a cycle none of whose services is a singleton with a cached
\* instance, resolve ends with an error, never with an instance or an
\* exhausted call stack, and constructs nothing on the cycle; when the cycle
\* runs through each service's first declared dependency the error is
\* CircularDependencyError naming the resolved service, and no factory ran.
C3_CycleFails ==
  \A i \in Latest :
    IsResolve(i)
    => LET ct == history[i].before[history[i].c]
           n == history[i].name
           P == Closure(Uncached(ct, Edges(ct)))
           F == Closure(Uncached(ct, FirstEdges(ct)))
       IN  /\ OnCycle(P, n)
              => /\ history[i].ret.kind = "error"
                 /\ history[i].ret.error # RangeError
                 /\ \A x \in Names : OnCycleWith(P, n, x) => Invocations(i, x) = {}
           /\ OnCycle(F, n)
              => /\ history[i].ret = Thrown(CircularDependencyError, n)
                 /\ \A x \in Names : Invocations(i, x) = {}

\* A cycle of three is detected when the third service asks for the first.
C3_Witness ==
  \E i \in Calls :
    LET ct == history[i].before[history[i].c]
    IN  /\ IsResolve(i)
        /\ OnCycle(Closure(Uncached(ct, FirstEdges(ct))), history[i].name)
        /\ Len(history[i].trace) = 4
        /\ history[i].ret.error = CircularDependencyError

\* C4: between calls the cycle-tracking set of every container is empty,
\* whatever the calls returned or threw, and a resolve() reported as circular
\* names a service that does lie on a cycle of the registered graph.
C4_StackEmptyBetweenCalls ==
  /\ \A c \in DOMAIN containers : containers[c]._circularDependencyCheck = {}
  /\ \A i \in Calls :
       (IsResolve(i) /\ history[i].ret.error = CircularDependencyError)
       => OnCycle(Closure(Edges(history[i].before[history[i].c])), history[i].ret.name)

\* A resolve fails below the top level (factory error, unregistered name or
\* cycle) and a later resolve of a service with dependencies succeeds.
C4_Witness ==
  \E i \in Calls, j \in Calls :
    /\ i < j /\ IsResolve(i) /\ IsResolve(j) /\ history[i].c = history[j].c
    /\ history[i].ret.kind = "error"
    /\ Len(history[i].trace) >= 3
    /\ history[j].ret.kind = "value"
    /\ \E p \in Invocations(j, history[j].name) : history[j].trace[p].args # << >>

TransientIn(ct, n) == Registered(ct, n) /\ Lifecycle(ct, n) = LIFECYCLE.TRANSIENT

Entries(m, n) == {k \in 1..Len(m) : m[k].k = n}

CacheEntry(ct, n) == {ct._singletons[k] : k \in Entries(ct._singletons, n)}

\* The resolve(n) of call i, top level, returned an instance.
Resolved(i, c, n) ==
  /\ IsResolve(i) /\ history[i].c = c /\ history[i].name = n
  /\ history[i].ret.kind = "value"

\* C5 as stated: every resolve of a TRANSIENT name, direct or as a
\* dependency, invokes the factory anew and leaves the name's cache entry
\* alone, and two resolutions return two distinct instances.
C5_TransientAsStated ==
  \A i \in Calls, j \in Calls, n \in Names :
    LET c == history[i].c
    IN  (IsResolve(i) /\ TransientIn(history[i].before[c], n))
        => /\ CacheEntry(After(i)[c], n) = CacheEntry(history[i].before[c], n)
           /\ history[i].ret.kind = "value"
              => Cardinality(Invocations(i, n)) = Cardinality(Resolutions(i, n))
           /\ (/\ i < j /\ Resolved(i, c, n) /\ Resolved(j, c, n)
               /\ TransientIn(history[j].before[c], n))
              => history[i].ret.inst.id # history[j].ret.inst.id

ConstructsAnew(ct, n) == MapGet(ct._services, n).factory.kind \in {"new", "disposable"}

PreBuilt(ct, n) == MapGet(ct._services, n).factory.kind = "instance"

\* C5 amended: a resolve never touches the cache entry of a TRANSIENT name;
\* when the factory is a function, a resolve that returns has invoked it once
\* for every time the name was resolved, and when that function constructs a
\* new object each call two resolutions return distinct instances; a factory
\* that is a pre-built instance is not invoked and is itself returned by
\* every resolve.
C5_Transient ==
  \A i \in Calls, j \in Calls, n \in Names :
    LET c == history[i].c
        ct == history[i].before[c]
    IN  (IsResolve(i) /\ TransientIn(ct, n))
        => /\ CacheEntry(After(i)[c], n) = CacheEntry(ct, n)
           /\ (history[i].ret.kind = "value" /\ IsFunction(MapGet(ct._services, n).factory))
              => Cardinality(Invocations(i, n)) = Cardinality(Resolutions(i, n))
           /\ PreBuilt(ct, n)
              => /\ Invocations(i, n) = {}
                 /\ Resolved(i, c, n)
                    => history[i].ret.inst = MapGet(ct._services, n).factory.val
           /\ (/\ i < j /\ Resolved(i, c, n) /\ Resolved(j, c, n)
               /\ TransientIn(history[j].before[c], n)
               /\ ConstructsAnew(ct, n) /\ ConstructsAnew(history[j].before[c], n))
              => history[i].ret.inst.id # history[j].ret.inst.id

\* The same transient registration resolved twice, with dependencies.
C5_Witness ==
  \E i \in Calls, j \in Calls, n \in Names :
    LET c == history[i].c
    IN  /\ i < j /\ Resolved(i, c, n) /\ Resolved(j, c, n)
        /\ TransientIn(history[i].before[c], n)
        /\ MapGet(history[i].before[c]._services, n) = MapGet(history[j].before[c]._services, n)
        /\ ConstructsAnew(history[i].before[c], n)
        /\ MapGet(history[i].before[c]._services, n).dependencies # << >>

\* Calls i and j resolve service on a container wired as SharedWiring whose
\* cache was empty before i, with nothing but resolves on it in between.
ResolvedTwice(i, j) ==
  LET c == history[i].c
  IN  /\ i < j
      /\ Resolved(i, c, Service) /\ Resolved(j, c, Service)
      /\ history[i].before[c]._services = Wire(SharedWiring)._services
      /\ history[i].before[c]._singletons = << >>
      /\ \A k \in i..j : history[k].c = c => IsResolve(k)

\* Factory invocations of n on container c in calls i..j, as <<call, position>>.
InvocationsBetween(i, j, c, n) ==
  {x \in (i..j) \X (1..(2 * Cardinality(Names) + 2)) :
     history[x[1]].c = c /\ x[2] \in Invocations(x[1], n)}

\* C6: resolving service twice yields two distinct service instances built
\* from the same repo and the same logger; logger's and repo's factories ran
\* once each, and repo was built from that logger.
C6_SharedSingleton ==
  \A i \in Calls, j \in Calls :
    ResolvedTwice(i, j)
    => LET c == history[i].c
           logger == MapGet(After(i)[c]._singletons, Logger)
           repo == MapGet(After(i)[c]._singletons, Repo)
       IN  /\ history[i].ret.inst.id # history[j].ret.inst.id
           /\ Cardinality(InvocationsBetween(i, j, c, Logger)) = 1
           /\ Cardinality(InvocationsBetween(i, j, c, Repo)) = 1
           /\ \A x \in InvocationsBetween(i, j, c, Repo) :
                history[x[1]].trace[x[2]].args = <<logger.id>>
           /\ \A x \in InvocationsBetween(i, j, c, Service) :
                history[x[1]].trace[x[2]].args = <<repo.id, logger.id>>
           /\ Invocations(i, Service) # {} /\ Invocations(j, Service) # {}

C6_Witness ==
  \E i \in Calls, j \in Calls : ResolvedTwice(i, j)

\* C7: a register, registerValue, unregister, resolve or clear on the child
\* leaves the parent as it was.
C7_ChildLeavesParent ==
  \A i \in Calls :
    (/\ history[i].c = CHILD
     /\ history[i].op \in {"register", "registerValue", "unregister", "resolve", "clear"})
    => After(i)[PARENT] = history[i].before[PARENT]

\* Each of the five calls made on the child changed the child; one of them
\* registered a name the parent has too.
C7_Witness ==
  /\ \E i \in Calls :
       /\ history[i].c = CHILD /\ history[i].op = "register"
       /\ Registered(history[i].before[PARENT], history[i].name)
       /\ After(i)[CHILD] # history[i].before[CHILD]
       /\ \E j \in Calls : j > i /\ Resolved(j, PARENT, history[i].name)

MapsOf(ct) == StoreOf(ct)

OnlyResolves(c, i, j) == \A k \in (i + 1)..(j - 1) : history[k].c = c => IsResolve(k)

\* C8: createChild() gives the child exactly the parent's descriptors and
\* cached instances; a singleton cached at that moment is served to the child
\* from its cache; later calls on the parent leave the child as it was; and a
\* singleton that was not cached at the split is constructed by each container
\* for itself.
C8_ChildIsSnapshot ==
  \A i \in Calls :
    /\ history[i].op = "createChild"
       => /\ MapsOf(After(i)[CHILD]) = MapsOf(history[i].before[PARENT])
          /\ After(i)[PARENT] = history[i].before[PARENT]
          /\ \A j \in Calls, n \in Names :
               (/\ j > i /\ IsResolve(j) /\ history[j].c = CHILD
                /\ CachedSingleton(history[i].before[PARENT], n)
                /\ OnlyResolves(CHILD, i, j))
               => \A p \in Resolutions(j, n) :
                    ServedFromCache(j, p, n, MapGet(history[i].before[PARENT]._singletons, n))
          /\ \A j \in Calls, k \in Calls, n \in Names :
               (/\ j > i /\ k > i
                /\ Resolved(j, PARENT, n) /\ Resolved(k, CHILD, n)
                /\ ~Cached(history[i].before[PARENT], n)
                /\ ConstructsAnew(history[j].before[PARENT], n)
                /\ ConstructsAnew(history[k].before[CHILD], n))
               => history[j].ret.inst.id # history[k].ret.inst.id
    /\ (history[i].c = PARENT /\ CHILD \in DOMAIN history[i].before)
       => After(i)[CHILD] = history[i].before[CHILD]

\* The child serves a singleton that was cached before the split out of its
\* own copy of the cache.
C8_Witness ==
  \E i \in Calls, k \in Calls, n \in Names :
    /\ history[i].op = "createChild" /\ i < k
    /\ CachedSingleton(history[i].before[PARENT], n)
    /\ Resolved(k, CHILD, n)
    /\ Resolutions(k, n) = {1}

HasDispose(x) == x.disp \in {"ok", "throws"}

Disposals(i, x) ==
  {p \in 1..Len(history[i].trace) :
     history[i].trace[p].ev = "dispose" /\ history[i].trace[p].inst.id = x.id}

CachedInstances(ct) == {ct._singletons[k].v : k \in 1..Len(ct._singletons)}

\* C9: dispose() calls dispose() exactly once on each distinct instance in the
\* cache that has one, also when the cache holds it under several names.
C9_DisposeOncePerInstance ==
  \A i \in Calls :
    history[i].op = "dispose"
    => \A x \in CachedInstances(history[i].before[history[i].c]) :
         HasDispose(x) => Cardinality(Disposals(i, x)) = 1

\* C10: dispose() returns normally whatever the instances' dispose() did,
\* has called dispose() for every cache entry whose instance has one, and
\* leaves the services map and the singleton cache empty.
C10_DisposeSurvivesErrors ==
  \A i \in Calls :
    history[i].op = "dispose"
    => LET c == history[i].c
           cache == history[i].before[c]._singletons
       IN  /\ history[i].ret = Returned(NoInst)
           /\ \A k \in 1..Len(cache) :
                HasDispose(cache[k].v)
                => \E p \in 1..Len(history[i].trace) :
                     history[i].trace[p] = Event("dispose", cache[k].k, << >>, cache[k].v)
           /\ After(i)[c]._services = << >>
           /\ After(i)[c]._singletons = << >>

\* A dispose() that throws is followed by the dispose() of another instance.
C10_Witness ==
  \E i \in Calls :
    /\ history[i].op = "dispose"
    /\ \E p \in 1..Len(history[i].trace), q \in 1..Len(history[i].trace) :
         /\ p < q
         /\ history[i].trace[p].ev = "disposeError"
         /\ history[i].trace[q].ev = "dispose"
         /\ history[i].trace[q].inst.disp = "ok"

----------------------------------------------------------------------------
(* Lifecycles, the cache and the descriptors.                              *)

ScopedIn(ct, n) == Registered(ct, n) /\ Lifecycle(ct, n) = LIFECYCLE.SCOPED

\* Calls i < j on container c with nothing between them on c that registers,
\* pins or removes n.
Undisturbed(i, j, c, n) ==
  \A k \in (i + 1)..(j - 1) :
    /\ ~Drops(k, c, n)
    /\ ~Pins(k, c, n)
    /\ ~(history[k].c = c /\ history[k].op = "register" /\ history[k].name = n)

\* C11: a SCOPED service behaves as a SINGLETON one: the first resolve
\* constructs the instance and caches it, every later resolve returns that
\* instance from the cache without a factory call.
C11_ScopedAsSingleton ==
  \A i \in Calls, j \in Calls, n \in Names :
    LET c == history[i].c
    IN  (Resolved(i, c, n) /\ ScopedIn(history[i].before[c], n))
        => /\ Cached(After(i)[c], n)
           /\ MapGet(After(i)[c]._singletons, n) = history[i].ret.inst
           /\ (i < j /\ Resolved(j, c, n) /\ Undisturbed(i, j, c, n))
              => /\ history[j].ret.inst = history[i].ret.inst
                 /\ Invocations(j, n) = {}

\* The instance cached under n was handed to registerValue(n, value).
PinnedValue(ct, n) ==
  \E k \in Calls :
    /\ history[k].op = "registerValue" /\ history[k].name = n
    /\ history[k].arg = MapGet(ct._singletons, n)

\* C12: every name in the singleton cache of a container has a descriptor
\* there, whose lifecycle is SINGLETON unless registerValue pinned the
\* cached value.
C12_CachedNamesAreSingletons ==
  \A c \in DOMAIN containers, n \in Names :
    Cached(View(c), n)
    => /\ Registered(View(c), n)
       /\ Lifecycle(View(c), n) = LIFECYCLE.SINGLETON \/ PinnedValue(View(c), n)

----------------------------------------------------------------------------
(* Failed resolutions.                                                     *)

\* C13: a resolve that fails with CircularDependencyError leaves the
\* singleton cache exactly as it was before the call.
C13_CircularLeavesCache ==
  \A i \in Calls :
    (IsResolve(i) /\ history[i].ret.error = CircularDependencyError)
    => After(i)[history[i].c]._singletons = history[i].before[history[i].c]._singletons

\* n's factory throws.
Throws(ct, n) == Registered(ct, n) /\ MapGet(ct._services, n).factory.kind = "throws"

\* The services whose resolve was entered in call i and did not finish: no
\* cache hit and no factory return for them after it.
Unfinished(i) ==
  {y \in Names :
     \E p \in Resolutions(i, y) :
       \A q \in (p + 1)..Len(history[i].trace) :
         ~(/\ history[i].trace[q].name = y
           /\ history[i].trace[q].ev \in {"cached", "factory"}
           /\ history[i].trace[q].inst # NoInst)}

\* C14: when x's factory throws during a resolve, the call ends there with
\* that error, naming x; the factory was invoked once; the cache holds
\* nothing for x and is unchanged for every service the failure interrupted;
\* and a later resolve that reaches x invokes the factory again.
C14_FactoryErrorPropagates ==
  \A i \in Calls, x \in Names :
    LET c == history[i].c
        ct == history[i].before[c]
    IN  (IsResolve(i) /\ Throws(ct, x) /\ Invocations(i, x) # {})
        => /\ history[i].ret = Thrown(FactoryError, x)
           /\ Invocations(i, x) = {Len(history[i].trace)}
           /\ ~Cached(After(i)[c], x)
           /\ x \in Unfinished(i) /\ history[i].name \in Unfinished(i)
           /\ \A y \in Unfinished(i) : CacheEntry(After(i)[c], y) = CacheEntry(ct, y)
           /\ \A j \in Calls :
                (/\ j > i /\ IsResolve(j) /\ history[j].c = c
                 /\ Undisturbed(i, j, c, x))
                => \A p \in Resolutions(j, x) :
                     /\ p < Len(history[j].trace)
                     /\ history[j].trace[p + 1] = Event("factory", x, << >>, NoInst)

\* A factory fails two levels below the resolved service, whose resolve is
\* then repeated.
C14_Witness ==
  \E i \in Calls, j \in Calls, x \in Names :
    /\ i < j /\ IsResolve(i) /\ IsResolve(j) /\ history[i].c = history[j].c
    /\ Throws(history[i].before[history[i].c], x)
    /\ \E p \in Invocations(i, x) : p >= 4
    /\ Cardinality(Unfinished(i)) = 3
    /\ Undisturbed(i, j, history[i].c, x)
    /\ Invocations(j, x) # {}

----------------------------------------------------------------------------
(* Asynchronous factories and resolves issued by factories.                *)

\* Positions of call i's trace where n's factory returned a pending promise.
Pendings(i, n) ==
  {p \in 1..Len(history[i].trace) :
     history[i].trace[p].ev = "pending" /\ history[i].trace[p].name = n}

\* C15: the promise a SINGLETON factory returns is what resolve returns and
\* what the cache holds; every resolve issued while it is pending gets that
\* promise from the cache, so the factory runs once.
C15_PendingHandleShared ==
  \A i \in Calls, n \in Names :
    \A p \in Pendings(i, n) :
      LET c == history[i].c
          x == history[i].trace[p].inst
      IN  Lifecycle(history[i].before[c], n) = LIFECYCLE.SINGLETON
          => /\ Cardinality(Invocations(i, n)) = 1
             /\ Resolved(i, c, n) => history[i].ret = Returned(x)
             /\ CacheEntry(After(i)[c], n) = {[k |-> n, v |-> x]}
             /\ \A j \in Calls :
                  (/\ j > i /\ IsResolve(j) /\ history[j].c = c
                   /\ Undisturbed(i, j, c, n)
                   /\ x \notin Settled(j))
                  => \A q \in Resolutions(j, n) : ServedFromCache(j, q, n, x)

\* Two resolves reach the singleton while its promise is pending, one of them
\* as a dependency.
C15_Witness ==
  \E i \in Calls, j \in Calls, k \in Calls, n \in Names :
    /\ i < j /\ j < k /\ Pendings(i, n) # {}
    /\ IsResolve(j) /\ IsResolve(k)
    /\ history[j].c = history[i].c /\ history[k].c = history[i].c
    /\ Settled(k + 1) = {}
    /\ Resolutions(j, n) # {} /\ Resolutions(k, n) # {}
    /\ \E q \in Resolutions(j, n) \cup Resolutions(k, n) : q > 1

\* The resolves that factories issued during call i and that found names of
\* the resolve in progress in the cycle-tracking set.
TrackedLookups(i) ==
  {p \in 1..Len(history[i].trace) : history[i].trace[p].ev = "lookupTracked"}

\* Declared dependencies and the resolves the factories issue themselves.
LookupEdges(ct) ==
  {e \in Names \X Names :
     /\ Registered(ct, e[1]) /\ Registered(ct, e[2])
     /\ MapGet(ct._services, e[1]).factory.kind = "lookup"
     /\ e[2] = Logger}

\* C16: the names one resolve in flight has put on its stack are not visible
\* to another resolve in flight on the same container, and a resolve over an
\* acyclic dependency graph does not fail with CircularDependencyError.
C16_TrackingIsCallLocal ==
  \A i \in Calls :
    IsResolve(i)
    => /\ TrackedLookups(i) = {}
       /\ history[i].ret.error = CircularDependencyError
          => LET ct == history[i].before[history[i].c]
             IN  OnCycle(Closure(Edges(ct) \cup LookupEdges(ct)), history[i].ret.name)

----------------------------------------------------------------------------
(* clear(), dispose() and what follows them.                               *)

\* No call on container c strictly between calls i and j.
Adjacent(i, j, c) == i < j /\ \A l \in (i + 1)..(j - 1) : history[l].c # c

\* No register or registerValue on container c strictly between i and j.
NothingRegistered(i, j, c) ==
  \A l \in (i + 1)..(j - 1) :
    ~(history[l].c = c /\ history[l].op \in {"register", "registerValue"})

Emptied(i) == history[i].op \in {"clear", "dispose"}

\* C17: after clear() or dispose() the container lists no service and holds
\* no instance; until something is registered every resolve fails at once
\* with ServiceNotFoundError for the name asked; a register or registerValue
\* is accepted, and the name it registers then resolves to a newly
\* constructed instance (to the value, for registerValue), whatever the
\* container held before.
C17_EmptiedUntilRegistered ==
  \A i \in Calls :
    Emptied(i)
    => LET c == history[i].c
       IN  /\ getRegisteredServices(After(i)[c]) = << >>
           /\ After(i)[c]._singletons = << >>
           /\ \A j \in Calls :
                (j > i /\ IsResolve(j) /\ history[j].c = c /\ NothingRegistered(i, j, c))
                => /\ history[j].ret = Thrown(ServiceNotFoundError, history[j].name)
                   /\ Len(history[j].trace) = 1
           /\ \A j \in Calls, k \in Calls :
                (/\ Adjacent(i, j, c) /\ Adjacent(j, k, c)
                 /\ history[j].c = c /\ history[j].op \in {"register", "registerValue"}
                 /\ IsResolve(k) /\ history[k].c = c /\ history[k].name = history[j].name)
                => LET n == history[j].name
                   IN  /\ history[j].ret = Returned(NoInst)
                       /\ Registered(After(j)[c], n)
                       /\ history[j].op = "registerValue"
                          => /\ history[k].ret = Returned(history[j].arg)
                             /\ Invocations(k, n) = {}
                       /\ (history[j].op = "register" /\ ConstructsAnew(After(j)[c], n)
                            /\ Dependencies(After(j)[c], n) = {})
                          => /\ history[k].ret.kind = "value"
                             /\ Invocations(k, n) = {2}
                             /\ history[k].ret.inst \notin CachedInstances(history[i].before[c])

\* A container that holds a cached instance of a name is emptied, the name
\* is registered again and resolved.
C17_Witness ==
  \E i \in Calls, j \in Calls, k \in Calls :
    LET c == history[i].c
    IN  /\ Emptied(i) /\ Adjacent(i, j, c) /\ Adjacent(j, k, c)
        /\ history[j].c = c /\ history[j].op = "register"
        /\ Cached(history[i].before[c], history[j].name)
        /\ Resolved(k, c, history[j].name)
        /\ Invocations(k, history[j].name) # {}

----------------------------------------------------------------------------
(* registerValue, re-registration and unregister.                          *)

\* C18: registerValue(n, value) invokes nothing, leaves value in the cache
\* under n and n registered as a singleton; every resolve of n, direct or as
\* a dependency, then returns value from the cache, with no factory call and
\* no dependency resolution, for as long as this registration stands.
C18_ValueIsPinned ==
  \A i \in Calls :
    history[i].op = "registerValue"
    => LET c == history[i].c
           n == history[i].name
           value == history[i].arg
       IN  /\ history[i].trace = << >>
           /\ CacheEntry(After(i)[c], n) = {[k |-> n, v |-> value]}
           /\ CachedSingleton(After(i)[c], n)
           /\ \A j \in Calls :
                (j > i /\ IsResolve(j) /\ history[j].c = c /\ Undisturbed(i, j, c, n))
                => \A q \in Resolutions(j, n) : ServedFromCache(j, q, n, value)

\* A pinned value is resolved as a dependency of another service.
C18_Witness ==
  \E i \in Calls, j \in Calls :
    /\ i < j /\ history[i].op = "registerValue"
    /\ IsResolve(j) /\ history[j].c = history[i].c /\ history[j].ret.kind = "value"
    /\ Undisturbed(i, j, history[i].c, history[i].name)
    /\ \E q \in Resolutions(j, history[i].name) : q > 1

\* The descriptor register(name, factory, options) builds.
Descriptor(r) ==
  Config(r.factory,
         IF "lifecycle" \in DOMAIN r.options THEN r.options.lifecycle ELSE LIFECYCLE.SINGLETON,
         IF "dependencies" \in DOMAIN r.options THEN r.options.dependencies ELSE << >>)

Occurrences(names, n) == {k \in 1..Len(names) : names[k] = n}

\* C19: register on a name that has a descriptor returns normally; afterwards
\* getConfiguration(name) and the descriptor resolve uses are the new
\* descriptor, built from the new arguments alone, and the name is listed
\* once by getRegisteredServices().
C19_RegisterReplaces ==
  \A i \in Calls :
    LET c == history[i].c
        n == history[i].name
    IN  (history[i].op = "register" /\ Registered(history[i].before[c], n))
        => /\ history[i].ret = Returned(NoInst)
           /\ getConfiguration(After(i)[c], n) = Descriptor(history[i].arg)
           /\ MapGet(After(i)[c]._services, n) = Descriptor(history[i].arg)
           /\ Cardinality(Occurrences(getRegisteredServices(After(i)[c]), n)) = 1

\* A descriptor with dependencies and a lifecycle of its own is replaced by
\* one registered without options.
C19_Witness ==
  \E i \in Calls :
    LET c == history[i].c
        prior == getConfiguration(history[i].before[c], history[i].name)
    IN  /\ history[i].op = "register" /\ Registered(history[i].before[c], history[i].name)
        /\ history[i].arg.options = << >>
        /\ prior.dependencies # << >>
        /\ prior.lifecycle # LIFECYCLE.SINGLETON

\* C20: unregister(n) returns whether n had a descriptor; afterwards n has no
\* descriptor, no configuration and no cached instance, and the other names
\* are as before; on a name without descriptor it changes nothing; a name
\* registered again after it resolves to a newly constructed instance.
C20_UnregisterRemoves ==
  \A i \in Calls :
    history[i].op = "unregister"
    => LET c == history[i].c
           n == history[i].name
           ct == history[i].before[c]
       IN  /\ history[i].ret = ReturnedBoolean(Registered(ct, n))
           /\ ~Registered(After(i)[c], n) /\ ~Cached(After(i)[c], n)
           /\ getConfiguration(After(i)[c], n) = Null
           /\ \A x \in Names \ {n} :
                /\ CacheEntry(After(i)[c], x) = CacheEntry(ct, x)
                /\ getConfiguration(After(i)[c], x) = getConfiguration(ct, x)
                /\ Registered(After(i)[c], x) = Registered(ct, x)
           /\ ~Registered(ct, n) => After(i) = history[i].before
           /\ \A j \in Calls, k \in Calls :
                (/\ Adjacent(i, j, c) /\ Adjacent(j, k, c)
                 /\ history[j].c = c /\ history[j].op = "register" /\ history[j].name = n
                 /\ ConstructsAnew(After(j)[c], n) /\ Dependencies(After(j)[c], n) = {}
                 /\ IsResolve(k) /\ history[k].c = c /\ history[k].name = n)
                => /\ history[k].ret.kind = "value"
                   /\ Invocations(k, n) = {2}
                   /\ history[k].ret.inst \notin CachedInstances(ct)

\* A name with a cached instance is unregistered, registered again and
\* resolved.
C20_Witness ==
  \E i \in Calls, j \in Calls, k \in Calls :
    LET c == history[i].c
        n == history[i].name
    IN  /\ history[i].op = "unregister" /\ Cached(history[i].before[c], n)
        /\ history[i].ret = ReturnedBoolean(TRUE)
        /\ Adjacent(i, j, c) /\ Adjacent(j, k, c)
        /\ history[j].c = c /\ history[j].op = "register" /\ history[j].name = n
        /\ Resolved(k, c, n) /\ Invocations(k, n) # {}

----------------------------------------------------------------------------
(* Queries and names without descriptor.                                   *)

\* C21: right after register(n, ...) or registerValue(n, ...) on a container
\* isRegistered(n) is true there, and right after unregister(n) it is false,
\* whatever the calls before.
C21_IsRegisteredFollowsCalls ==
  \A i \in Calls :
    LET c == history[i].c
        n == history[i].name
    IN  /\ history[i].op \in {"register", "registerValue"} => isRegistered(After(i)[c], n)
        /\ history[i].op = "unregister" => ~isRegistered(After(i)[c], n)

\* A name is resolved, unregistered and registered again.
C21_Witness ==
  \E i \in Calls, j \in Calls :
    /\ i < j /\ history[i].c = history[j].c /\ history[i].name = history[j].name
    /\ history[i].op = "unregister" /\ history[i].ret = ReturnedBoolean(TRUE)
    /\ Cached(history[i].before[history[i].c], history[i].name)
    /\ history[j].op \in {"register", "registerValue"}

\* C22 as stated: a resolve, an unregister or a getConfiguration of a name
\* without descriptor ends with ServiceNotFoundError, never with a value such
\* as false or null.
C22_MissingNameAlwaysFailsAsStated ==
  /\ \A i \in Calls :
       LET c == history[i].c
           n == history[i].name
       IN  (history[i].op \in {"resolve", "unregister"} /\ ~isRegistered(history[i].before[c], n))
           => history[i].ret = Thrown(ServiceNotFoundError, n)
  /\ \A c \in DOMAIN containers, n \in Names :
       ~isRegistered(View(c), n) => getConfiguration(View(c), n) # Null

\* C22 amended: a resolve that reaches a name without descriptor, directly or
\* as a dependency, ends with ServiceNotFoundError for that name; unregister
\* of such a name returns false and getConfiguration returns null, neither
\* raising an error.
C22_MissingNameFailsResolveOnly ==
  /\ \A i \in Calls :
       LET c == history[i].c
           n == history[i].name
       IN  /\ history[i].op = "resolve"
              => \A x \in Names :
                   (~isRegistered(history[i].before[c], x) /\ Resolutions(i, x) # {})
                   => history[i].ret = Thrown(ServiceNotFoundError, x)
           /\ (history[i].op = "unregister" /\ ~isRegistered(history[i].before[c], n))
              => history[i].ret = ReturnedBoolean(FALSE)
  /\ \A c \in DOMAIN containers, n \in Names :
       ~isRegistered(View(c), n) => getConfiguration(View(c), n) = Null

\* A name that had a descriptor and lost it is unregistered and resolved.
C22_Witness ==
  \E i \in Calls, j \in Calls, k \in Calls :
    LET c == history[i].c
        n == history[i].name
    IN  /\ i < j /\ i < k
        /\ history[i].op = "unregister" /\ history[i].ret = ReturnedBoolean(TRUE)
        /\ history[j].op = "unregister" /\ history[j].c = c /\ history[j].name = n
        /\ ~isRegistered(history[j].before[c], n)
        /\ history[k].op = "resolve" /\ history[k].c = c /\ history[k].name = n
        /\ ~isRegistered(history[k].before[c], n)
        /\ getConfiguration(View(c), n) = Null

----------------------------------------------------------------------------
(* resolveAll.                                                             *)

\* The event e ends a successful resolve of n with the instance inst.
Completes(e, n, inst) ==
  /\ e.ev \in {"cached", "factory"}
  /\ e.name = n
  /\ e.inst = inst
  /\ inst # NoInst

\* The event e is the one at which the error r arose: the resolve that found
\* no descriptor, a name in progress or no stack left, or the factory call
\* that threw.
Raises(e, r) ==
  /\ e.name = r.name
  /\ \/ e.ev = "resolve" /\ r.error \in {ServiceNotFoundError, CircularDependencyError, RangeError}
     \/ e.ev = "factory" /\ e.inst = NoInst /\ r.error = FactoryError

RECURSIVE InOrder(_, _, _)
\* From event p on, the trace of call i is the resolve of its j-th name run to
\* its end with the j-th instance returned, then the same for the names after.
InOrder(i, j, p) ==
  LET names == history[i].arg
      T == history[i].trace
      args == history[i].ret.args
  IN  /\ p <= Len(T)
      /\ T[p] = Event("resolve", names[j], << >>, NoInst)
      /\ IF j = Len(names)
           THEN Completes(T[Len(T)], names[j], args[j])
           ELSE \E q \in (p + 1)..Len(T) :
                  /\ Completes(T[q - 1], names[j], args[j])
                  /\ InOrder(i, j + 1, q)

RECURSIVE InOrderUntil(_, _, _, _)
\* From event p on, the trace of call i is the resolves of its names j..f-1,
\* each run to its end, then the resolve of the f-th, which the trace ends in.
InOrderUntil(i, j, p, f) ==
  LET names == history[i].arg
      T == history[i].trace
  IN  /\ p <= Len(T)
      /\ T[p] = Event("resolve", names[j], << >>, NoInst)
      /\ IF j = f
           THEN ~Completes(T[Len(T)], names[j], T[Len(T)].inst)
           ELSE \E q \in (p + 1)..Len(T) :
                  /\ Completes(T[q - 1], names[j], T[q - 1].inst)
                  /\ InOrderUntil(i, j + 1, q, f)

\* C23: resolveAll(names) returns the instances of the resolves of its names,
\* made one after another in the order of names; when one of them fails, the
\* call raises that error, hands back no array, and the failing resolve is
\* the last thing it did: no name after it is resolved.
C23_ResolveAllInOrderFailFast ==
  \A i \in Calls :
    history[i].op = "resolveAll"
    => LET names == history[i].arg
           T == history[i].trace
           r == history[i].ret
       IN  /\ r.kind \in {"value", "error"}
           /\ r.kind = "value"
              => /\ Len(r.args) = Len(names)
                 /\ IF names = << >> THEN T = << >> ELSE InOrder(i, 1, 1)
           /\ r.kind = "error"
              => /\ r.args = << >>
                 /\ T # << >>
                 /\ Raises(T[Len(T)], r)
                 /\ \E f \in 1..Len(names) : InOrderUntil(i, 1, 1, f)

\* One resolveAll returned two different instances; a later one resolved its
\* first name, failed on its second and had a third.
C23_Witness ==
  \E i \in Calls, j \in Calls :
    /\ i < j
    /\ history[i].op = "resolveAll" /\ history[j].op = "resolveAll"
    /\ history[i].ret.kind = "value"
    /\ Len(history[i].ret.args) = 2
    /\ history[i].ret.args[1] # history[i].ret.args[2]
    /\ history[j].ret.kind = "error"
    /\ Len(history[j].arg) = 3
    /\ InOrderUntil(j, 1, 1, 2)

----------------------------------------------------------------------------
(* clear() against dispose().                                              *)

\* The cached instances of ct that have a dispose() method.
Disposables(ct) == {x \in CachedInstances(ct) : HasDispose(x)}

\* C24: clear() leaves the container without descriptors and without cached
\* instances, whatever it held, and calls dispose() on none of them; dispose()
\* calls it on every cached instance that has one.
C24_ClearDisposesNothing ==
  \A i \in Calls :
    LET c == history[i].c
    IN  /\ history[i].op = "clear"
           => /\ After(i)[c]._services = << >>
              /\ After(i)[c]._singletons = << >>
              /\ history[i].trace = << >>
              /\ history[i].ret = Returned(NoInst)
        /\ history[i].op = "dispose"
           => \A x \in Disposables(history[i].before[c]) : Disposals(i, x) # {}

\* clear() of a container that held an instance with dispose(), and a
\* dispose() that called one.
C24_Witness ==
  \E i \in Calls, j \in Calls :
    /\ history[i].op = "clear"
    /\ Disposables(history[i].before[history[i].c]) # {}
    /\ history[i].before[history[i].c]._services # << >>
    /\ history[j].op = "dispose"
    /\ \E x \in Disposables(history[j].before[history[j].c]) : Disposals(j, x) # {}

----------------------------------------------------------------------------
(* The order in which dependencies are resolved.                           *)

RECURSIVE DependenciesInOrder(_, _, _, _, _, _)
\* Events p..f-1 of call i are the resolves of the dependencies D[j..], each
\* run to its end with the instance of identity A[j] before the next begins.
DependenciesInOrder(i, D, A, j, p, f) ==
  LET T == history[i].trace
      done(q) == /\ T[q].ev \in {"cached", "factory"}
                 /\ T[q].name = D[j]
                 /\ T[q].inst # NoInst
                 /\ T[q].inst.id = A[j]
  IN  IF j > Len(D)
        THEN p = f
        ELSE /\ p < f
             /\ T[p] = Event("resolve", D[j], << >>, NoInst)
             /\ \E q \in (p + 1)..f : done(q - 1) /\ DependenciesInOrder(i, D, A, j + 1, q, f)

\* The resolve of n entered at event p of call i found n neither missing, nor
\* in progress, nor cached: it went on to construct n.
Constructs(i, p) ==
  LET T == history[i].trace
  IN  /\ T[p].ev = "resolve"
      /\ p < Len(T)
      /\ ~(T[p + 1].ev = "cached" /\ T[p + 1].name = T[p].name)

\* C25: a resolve that constructs n first resolves the dependencies n
\* declares, one after another in the declared order and each to its end
\* before the next begins; n's factory is invoked right after the last of
\* them, with exactly these instances in the declared order.  (Stated for
\* factories that are functions, as all those of GraphWirings are.)
C25_DependenciesLeftToRight ==
  \A i \in Calls :
    LET T == history[i].trace
        services == history[i].before[history[i].c]._services
        D(n) == MapGet(services, n).dependencies
    IN  /\ \A p \in 1..Len(T) :
             Constructs(i, p)
             => IF D(T[p].name) = << >>
                  THEN T[p + 1].ev = "factory" /\ T[p + 1].name = T[p].name
                  ELSE T[p + 1] = Event("resolve", D(T[p].name)[1], << >>, NoInst)
        /\ \A f \in 1..Len(T) :
             T[f].ev = "factory"
             => /\ Len(T[f].args) = Len(D(T[f].name))
                /\ \E p \in 1..(f - 1) :
                     /\ T[p] = Event("resolve", T[f].name, << >>, NoInst)
                     /\ DependenciesInOrder(i, D(T[f].name), T[f].args, 1, p + 1, f)

\* A factory was handed two different instances, the first of them
\* constructed, with a dependency of its own, during the same call.
C25_Witness ==
  \E i \in Calls :
    LET T == history[i].trace
        services == history[i].before[history[i].c]._services
    IN  \E f \in 1..Len(T), g \in 1..Len(T) :
          /\ T[f].ev = "factory" /\ T[g].ev = "factory"
          /\ g < f
          /\ Len(T[f].args) = 2
          /\ T[f].args[1] # T[f].args[2]
          /\ T[g].name = MapGet(services, T[f].name).dependencies[1]
          /\ T[g].inst.id = T[f].args[1]
          /\ Len(T[g].args) = 1

----------------------------------------------------------------------------
(* A transient dependency below a diamond.                                 *)

\* Events of call i's trace at which n's factory returned an instance.
Built(i, n) ==
  {p \in 1..Len(history[i].trace) :
     /\ history[i].trace[p].ev = "factory"
     /\ history[i].trace[p].name = n
     /\ history[i].trace[p].inst # NoInst}

\* In ct, a declares exactly b and c, which are not cached and declare
\* exactly the TRANSIENT t.
Diamond(ct, a, b, c, t) ==
  /\ b # c
  /\ \A n \in {a, b, c, t} : Registered(ct, n)
  /\ MapGet(ct._services, a).dependencies \in {<<b, c>>, <<c, b>>}
  /\ MapGet(ct._services, b).dependencies = <<t>>
  /\ MapGet(ct._services, c).dependencies = <<t>>
  /\ MapGet(ct._services, t).dependencies = << >>
  /\ Lifecycle(ct, t) = LIFECYCLE.TRANSIENT
  /\ ~CachedSingleton(ct, a) /\ ~CachedSingleton(ct, b) /\ ~CachedSingleton(ct, c)

\* C26: when a declares b and c, both b and c declare the TRANSIENT t, and
\* none of a, b, c is cached, one resolve(a) invokes t's factory twice and
\* hands b's factory and c's factory two different instances of t.
C26_TransientPerPath ==
  \A i \in Calls : \A a \in GraphNames, b \in GraphNames, c \in GraphNames, t \in GraphNames :
    (/\ IsResolve(i) /\ history[i].name = a
     /\ Diamond(history[i].before[history[i].c], a, b, c, t))
    => LET T == history[i].trace
       IN  /\ history[i].ret.kind = "value"
           /\ Cardinality(Invocations(i, t)) = 2
           /\ Cardinality(Built(i, b)) = 1 /\ Cardinality(Built(i, c)) = 1
           /\ \A p \in Built(i, b), q \in Built(i, c) :
                /\ Len(T[p].args) = 1 /\ Len(T[q].args) = 1
                /\ T[p].args[1] # T[q].args[1]
                /\ {T[p].args[1], T[q].args[1]} = {T[k].inst.id : k \in Built(i, t)}

\* resolve(a) on the diamond returned a.
C26_Witness ==
  \E i \in Calls :
    /\ IsResolve(i) /\ history[i].name = "a"
    /\ Diamond(history[i].before[history[i].c], "a", "b", "c", Formatter)
    /\ history[i].ret.kind = "value"
    /\ Cardinality(Invocations(i, Formatter)) = 2

----------------------------------------------------------------------------
(* A factory that resolves the service it is constructing.                 *)

\* Events of call i's trace at which the factory of n, just invoked, asks the
\* container for n.
SelfLookups(i, n) ==
  {p \in 2..Len(history[i].trace) :
     /\ history[i].trace[p].ev \in {"lookup", "lookupTracked"}
     /\ history[i].trace[p].name = n
     /\ history[i].trace[p - 1].ev = "factory"
     /\ history[i].trace[p - 1].name = n}

\* C27: while n's factory runs, n is still in the set of names in progress,
\* so a resolve(n) issued by n's own factory is refused at once with
\* CircularDependencyError for n, which is what the call ends with.
C27_SelfResolveIsCircular ==
  \A i \in Calls : \A n \in GraphNames : \A p \in SelfLookups(i, n) :
    LET T == history[i].trace
    IN  /\ T[p].ev = "lookupTracked"
        /\ p + 1 = Len(T)
        /\ T[p + 1] = Event("resolve", n, << >>, NoInst)
        /\ history[i].ret = Thrown(CircularDependencyError, n)

----------------------------------------------------------------------------
(* Registering a name that has a cached instance.                          *)

\* Call i registers n on c, where n has a cached instance, as a SINGLETON;
\* call j, later, resolves n on c, and no call between them on c registers n
\* again, pins a value under n or removes n's cache entry.
ReRegisteredThenResolved(i, j, c, n) ==
  /\ i < j
  /\ history[i].op = "register" /\ history[i].c = c /\ history[i].name = n
  /\ Cached(history[i].before[c], n)
  /\ Lifecycle(After(i)[c], n) = LIFECYCLE.SINGLETON
  /\ IsResolve(j) /\ history[j].c = c /\ history[j].name = n
  /\ \A k \in (i + 1)..(j - 1) :
       ~(Drops(k, c, n) \/ Pins(k, c, n)
         \/ (history[k].op = "register" /\ history[k].c = c /\ history[k].name = n))

\* C28: register leaves the singleton cache as it was; after a name with a
\* cached instance is registered again as a SINGLETON, a resolve of the name
\* returns that old instance from the cache and the new factory is not
\* invoked.
C28_RegisterKeepsCachedInstance ==
  /\ \A i \in Calls :
       history[i].op = "register"
       => After(i)[history[i].c]._singletons = history[i].before[history[i].c]._singletons
  /\ \A i \in Calls, j \in Latest : \A c \in {history[j].c}, n \in {history[j].name} :
       ReRegisteredThenResolved(i, j, c, n)
       => /\ history[j].ret = Returned(MapGet(history[i].before[c]._singletons, n))
          /\ Invocations(j, n) = {}
          /\ history[j].trace =
               << Event("resolve", n, << >>, NoInst),
                  Event("cached", n, << >>, MapGet(history[i].before[c]._singletons, n)) >>

\* The child registers, with a factory that constructs a new object, a name
\* whose instance it inherited from the parent, and then resolves it.
C28_Witness ==
  \E i \in Calls, j \in Calls : \E n \in Names :
    /\ CHILD \in DOMAIN containers
    /\ ReRegisteredThenResolved(i, j, CHILD, n)
    /\ history[i].arg.factory = NewFactory
    /\ history[j].ret.inst \in Values

----------------------------------------------------------------------------
(* Disposal of instances a child shares with its parent.                   *)

\* The instances with dispose() that both containers hold before call i.
SharedDisposables(i) ==
  {x \in Disposables(history[i].before[CHILD]) :
     x \in CachedInstances(history[i].before[PARENT])}

\* Between calls i and j the parent is only asked to resolve.
ParentOnlyResolves(i, j) ==
  \A k \in (i + 1)..(j - 1) : history[k].c = PARENT => IsResolve(k)

\* C29: dispose() on the child calls dispose() on every instance it shares
\* with the parent and leaves the parent's descriptors and cache as they
\* were; the parent goes on serving these instances, and its own dispose()
\* calls dispose() on each of them once more.
C29_ChildDisposeReachesParentInstances ==
  \A i \in Calls :
    (history[i].op = "dispose" /\ history[i].c = CHILD)
    => /\ \A x \in SharedDisposables(i) : Disposals(i, x) # {}
       /\ MapsOf(After(i)[PARENT]) = MapsOf(history[i].before[PARENT])
       /\ \A j \in Latest :
            (i < j /\ history[j].c = PARENT /\ ParentOnlyResolves(i, j))
            => /\ \A n \in Names :
                    (/\ IsResolve(j) /\ history[j].name = n
                     /\ CachedSingleton(history[i].before[PARENT], n))
                    => history[j].ret =
                         Returned(MapGet(history[i].before[PARENT]._singletons, n))
               /\ history[j].op = "dispose"
                  => \A x \in SharedDisposables(i) : Disposals(j, x) # {}

\* An instance was disposed by the child and again, later, by the parent.
C29_Witness ==
  \E i \in Calls, j \in Calls :
    /\ i < j
    /\ history[i].op = "dispose" /\ history[i].c = CHILD
    /\ history[j].op = "dispose" /\ history[j].c = PARENT
    /\ \E x \in SharedDisposables(i) : Disposals(i, x) # {} /\ Disposals(j, x) # {}

----------------------------------------------------------------------------
(* The container createContainer() builds.                                 *)

\* The names reached from those of S by up to k declarations.
RECURSIVE Reachable(_, _, _)
Reachable(ct, S, k) ==
  IF k = 0
    THEN S
    ELSE Reachable(ct, S \cup UNION {Dependencies(ct, y) : y \in S}, k - 1)

\* Every name a descriptor of ct declares has a descriptor in ct.
Closed(ct) ==
  \A k \in 1..Len(ct._services) : \A d \in 1..Len(ct._services[k].v.dependencies) :
    Registered(ct, ct._services[k].v.dependencies[d])

Acyclic(ct) ==
  \A n \in AppNames :
    n \notin Reachable(ct, Dependencies(ct, n), Cardinality(AppNames))

\* The factory invocations of n in the calls made so far, as <<call, event>>.
AllInvocations(n) == UNION {{<<i, p>> : p \in Invocations(i, n)} : i \in Calls}

\* The identities of the instances n's factory returned so far.
AllBuilt(n) == {history[e[1]].trace[e[2]].inst.id : e \in AllInvocations(n)}

\* The identities n's factory was handed as its k-th argument so far.
AllHanded(n, k) == {history[e[1]].trace[e[2]].args[k] : e \in AllInvocations(n)}

SpecialisedLoggers == {"apiLogger", "testLogger", "stepLogger"}

====
